---- MODULE Spec2Model ----
(***************************************************************************)
(* Model of src/server.py: RetellMistralServer, a WebSocket relay that     *)
(* answers every response_required frame of a voice platform with one      *)
(* chat completion.  One asyncio task runs handle_connection per accepted  *)
(* connection; tasks are switched only at an await that really suspends    *)
(* (websocket.send, the async-for receive).  MistralClient.chat is a       *)
(* synchronous call: while a task is inside it (pc = "in_chat") the event  *)
(* loop runs nothing else.                                                 *)
(***************************************************************************)
EXTENDS Integers, Sequences, FiniteSets, TLC

(* ------------------------------ bounds --------------------------------- *)
\* longest transcript of the context-builder specification
MaxLen == 3
\* frames delivered over all connections of the server specification
MaxFrames == 2

\* the connections the server accepts
Conns == {"c1", "c2"}

(* ------------------------------- state --------------------------------- *)
VARIABLES
    pc,                   \* per connection: where its task stands
    open,                 \* per connection: the transport is open
    sent,                 \* per connection: the messages websocket.send delivered
    pending,              \* per connection: the message of the send being awaited
    frames,               \* per connection: the frames received so far
    cycle,                \* per connection: the response cycle in progress
    requests,             \* per connection: number of mistral_client.chat calls
    lastRequest,          \* per connection: the last messages= argument of chat
    conversations,        \* self.conversations, keyed by call id
    stage,                \* context builder: the step reached
    transcript_in,        \* context builder: the transcript of the event
    user_message,         \* context builder: the current user message
    conversation_history  \* context builder: the message list

(* ------------------------- values of the wire -------------------------- *)
\* a key that is absent from a JSON object (dict.get returns its default)
NoKey == "<absent>"
\* a transcript element that is not a JSON object (entry.get raises)
NotAnObject == "<not-an-object>"
\* response_id absent from the frame
NoRid == -1
\* a content that is not a str and cannot be sliced
NoneContent == "<None>"
\* the text of a successful completion
ModelReply == "model reply"

InitialGreeting == "Hello! I'm your AI assistant. How can I help you today?"
ErrorContent == "I apologize, but I'm having trouble processing your request. Could you please try again?"
MistralErrorContent == "I apologize, but I'm experiencing technical difficulties. Please try again."
SystemPrompt == "You are a helpful AI assistant. Provide clear, concise, and helpful responses."

SystemEntry == [role |-> "system", content |-> SystemPrompt]

Roles == {"user", "assistant", "tool"}
Contents == {"hi", "hello", "bye", "", NoKey}
Entries == [role : Roles, content : Contents]
BadEntry == [role |-> NotAnObject, content |-> NotAnObject]

RECURSIVE SeqsUpTo(_, _)
SeqsUpTo(S, n) ==
    IF n = 0 THEN {<<>>}
    ELSE LET shorter == SeqsUpTo(S, n - 1)
         IN  shorter \cup {Append(s, e) : s \in {t \in shorter : Len(t) = n - 1}, e \in S}

Transcripts == SeqsUpTo(Entries, MaxLen)

(* ----------------------------- dict.get -------------------------------- *)
\* entry.get("role")
EntryRole(entry) == entry.role
\* entry.get("content", "")
EntryContent(entry) == IF entry.content = NoKey THEN "" ELSE entry.content
IsObject(entry) == entry.role # NotAnObject

(* --------------- handle_response_required, lines 80-87 ----------------- *)
\* scan from the end for the first entry whose role is user
RECURSIVE LastUserScan(_, _)
LastUserScan(transcript, i) ==
    IF i = 0 THEN [raised |-> FALSE, value |-> ""]
    ELSE IF ~IsObject(transcript[i]) THEN [raised |-> TRUE, value |-> ""]
    ELSE IF EntryRole(transcript[i]) = "user"
         THEN [raised |-> FALSE, value |-> EntryContent(transcript[i])]
    ELSE LastUserScan(transcript, i - 1)

\* the scan taken from the front: the first user entry instead of the last
RECURSIVE FirstUserScan(_, _)
FirstUserScan(transcript, i) ==
    IF i > Len(transcript) THEN [raised |-> FALSE, value |-> ""]
    ELSE IF ~IsObject(transcript[i]) THEN [raised |-> TRUE, value |-> ""]
    ELSE IF EntryRole(transcript[i]) = "user"
         THEN [raised |-> FALSE, value |-> EntryContent(transcript[i])]
    ELSE FirstUserScan(transcript, i + 1)

LatestUserMessage_first(transcript) == FirstUserScan(transcript, 1)

LatestUserMessage(transcript) == LastUserScan(transcript, Len(transcript))

(* -------------------- prepare_conversation_context --------------------- *)
RECURSIVE ConvertLoop(_, _, _)
ConvertLoop(transcript, i, messages) ==
    IF i > Len(transcript) THEN [raised |-> FALSE, value |-> messages]
    ELSE IF ~IsObject(transcript[i]) THEN [raised |-> TRUE, value |-> messages]
    ELSE LET role == EntryRole(transcript[i])
             content == EntryContent(transcript[i])
         IN  IF role = "user"
             THEN ConvertLoop(transcript, i + 1,
                              Append(messages, [role |-> "user", content |-> content]))
             ELSE IF role = "assistant"
             THEN ConvertLoop(transcript, i + 1,
                              Append(messages, [role |-> "assistant", content |-> content]))
             ELSE ConvertLoop(transcript, i + 1, messages)

\* the builder extending the list of the previous cycle instead of a fresh one
prepare_conversation_context_shared(call_id, transcript) ==
    LET earlier == {c \in Conns : lastRequest[c].frame > 0}
    IN  IF earlier = {} THEN ConvertLoop(transcript, 1, <<SystemEntry>>)
        ELSE ConvertLoop(transcript, 1, lastRequest[CHOOSE c \in earlier : TRUE].messages)

\* the builder without its system entry
prepare_conversation_context_no_system(call_id, transcript) ==
    ConvertLoop(transcript, 1, <<>>)

prepare_conversation_context(call_id, transcript) ==
    ConvertLoop(transcript, 1, <<SystemEntry>>)

(* ------------------------- call_mistral_model -------------------------- *)
\* the guard never appending
EnsureUserMessage_never(history, current) == history

\* the guard without its comparison against the last entry
EnsureUserMessage_always(history, current) ==
    IF current # ""
    THEN Append(history, [role |-> "user", content |-> current])
    ELSE history

\* lines 152-154: the guard that appends the current user message
EnsureUserMessage(history, current) ==
    IF current # ""
       /\ (history = <<>>
           \/ history[Len(history)].content # current)
    THEN Append(history, [role |-> "user", content |-> current])
    ELSE history

\* outcomes of lines 157-164: "text"  the top choice carries a text,
\*                            "raise" mistral_client.chat raises,
\*                            "empty" the result has no usable choice (line 164 raises)
Outcomes == {"text", "raise", "empty"}

\* a failure of the API call answered with the text of the exception
CompletionResult_raw_error(outcome) ==
    IF outcome = "text" THEN ModelReply ELSE "Error calling Mistral API: 401 Unauthorized"

\* a failure of the API call answered with the handler's apology
CompletionResult_propagate(outcome) ==
    IF outcome = "text" THEN ModelReply ELSE ErrorContent

\* lines 156-168: the content returned for each outcome of the API call
CompletionResult(outcome) ==
    IF outcome = "text" THEN ModelReply ELSE MistralErrorContent

call_mistral_model(history, current, outcome) ==
    [submitted |-> EnsureUserMessage(history, current),
     content   |-> CompletionResult(outcome)]

(* ------------------------- frames of the wire -------------------------- *)
\* transcripts a frame of the server specification may carry
WireTranscripts ==
    { <<>>,
      <<[role |-> "user", content |-> "hi"], [role |-> "assistant", content |-> "hello"]>>,
      <<BadEntry>> }

ResponseIds == {NoRid, 1}
CallIds == {NoKey, "call-A"}

\* json "invalid": not JSON text; "array": JSON, but not an object
InvalidFrame ==
    [json |-> "invalid", interaction_type |-> NoKey, call_id |-> NoKey,
     response_id |-> NoRid, transcript |-> <<>>]
ArrayFrame ==
    [json |-> "array", interaction_type |-> NoKey, call_id |-> NoKey,
     response_id |-> NoRid, transcript |-> <<>>]
ObjectFrames ==
    [json : {"object"}, interaction_type : {"update_only", "ping_check", NoKey},
     call_id : {NoKey}, response_id : {NoRid}, transcript : {<<>>}]
    \cup
    [json : {"object"}, interaction_type : {"response_required"},
     call_id : CallIds, response_id : ResponseIds, transcript : WireTranscripts]
WireFrames == {InvalidFrame, ArrayFrame} \cup ObjectFrames

(* ------------------------ messages the server sends -------------------- *)
\* the greeting under a response_id other than 0
initial_message_id1 ==
    [response_type |-> "response", response_id |-> 1, content |-> InitialGreeting,
     content_complete |-> TRUE, end_call |-> FALSE]

\* handle_connection, lines 33-39
initial_message ==
    [response_type |-> "response", response_id |-> 0, content |-> InitialGreeting,
     content_complete |-> TRUE, end_call |-> FALSE]

\* data.get("response_id", 0)
DataResponseId(data) == IF data.response_id = NoRid THEN 0 ELSE data.response_id

\* a reply marked as partial content
response_message_partial(response_id, response_content) ==
    [response_type |-> "response", response_id |-> response_id,
     content |-> response_content, content_complete |-> FALSE, end_call |-> FALSE]

\* handle_response_required, lines 98-104
response_message(response_id, response_content) ==
    [response_type |-> "response", response_id |-> response_id,
     content |-> response_content, content_complete |-> TRUE, end_call |-> FALSE]

\* the error response under the default response_id
error_response_zero_id(data) ==
    [response_type |-> "response", response_id |-> 0,
     content |-> ErrorContent, content_complete |-> TRUE, end_call |-> FALSE]

\* handle_response_required, lines 112-118
error_response(data) ==
    [response_type |-> "response", response_id |-> DataResponseId(data),
     content |-> ErrorContent, content_complete |-> TRUE, end_call |-> FALSE]

NoMessage ==
    [response_type |-> "none", response_id |-> 0, content |-> "",
     content_complete |-> FALSE, end_call |-> FALSE]

(* --------------------------- process_message --------------------------- *)
\* a frame that fails to parse handled as a response_required event
Dispatch_invalid_responds(message) ==
    IF message.json = "invalid" THEN "response_required"
    ELSE IF message.json # "object" THEN "error"
    ELSE IF message.interaction_type = "response_required" THEN "response_required"
    ELSE IF message.interaction_type = "update_only" THEN "update_only"
    ELSE "unknown"

\* update_only handled as response_required
Dispatch_update_responds(message) ==
    IF message.json = "invalid" THEN "json_decode_error"
    ELSE IF message.json # "object" THEN "error"
    ELSE IF message.interaction_type \in {"response_required", "update_only"}
         THEN "response_required"
    ELSE "unknown"

\* every interaction type other than update_only handled as response_required
Dispatch_default_responds(message) ==
    IF message.json = "invalid" THEN "json_decode_error"
    ELSE IF message.json # "object" THEN "error"
    ELSE IF message.interaction_type = "update_only" THEN "update_only"
    ELSE "response_required"

\* lines 54-70: what one received frame is dispatched to
Dispatch(message) ==
    IF message.json = "invalid" THEN "json_decode_error"
    ELSE IF message.json # "object" THEN "error"
    ELSE IF message.interaction_type = "response_required" THEN "response_required"
    ELSE IF message.interaction_type = "update_only" THEN "update_only"
    ELSE "unknown"

(* ------------------------- try/except structure ------------------------ *)
\* the handler going back to the receive loop on a closed transport
ExceptionLanding_no_exit(site) ==
    IF site = "cycle" THEN "send_error"
    ELSE IF site = "error_send" THEN "recv"
    ELSE IF site = "loop" THEN "recv"
    ELSE "escaped"

\* the except clause of line 109 only logging: no error response is sent
ExceptionLanding_swallow(site) ==
    IF site = "cycle" THEN "recv"
    ELSE IF site = "error_send" THEN "recv"
    ELSE IF site = "loop" THEN "done"
    ELSE "escaped"

\* where the task continues after an exception raised at a site:
\*   "cycle"      lines 75-107, caught at line 109: the error response is sent
\*   "error_send" line 119, caught at line 69: back to the receive loop
\*   "loop"       lines 40 and 44, caught at lines 47-50: the task ends
ExceptionLanding(site) ==
    IF site = "cycle" THEN "send_error"
    ELSE IF site = "error_send" THEN "recv"
    ELSE IF site = "loop" THEN "done"
    ELSE "escaped"

\* line 107: response_content[:100] raises on a content that cannot be sliced;
\* every content call_mistral_model returns (line 164, line 168) is a str
LogSliceRaises(response_content) == response_content = NoneContent

serverVars == <<pc, open, sent, pending, frames, cycle, requests, lastRequest, conversations>>
builderVars == <<stage, transcript_in, user_message, conversation_history>>
vars == <<serverVars, builderVars>>

NoCycle == [frame |-> 0, response_id |-> NoRid, outcome |-> "nocall"]
NoRequest == [frame |-> 0, transcript |-> <<>>, messages |-> <<>>]

RECURSIVE SumOver(_, _)
SumOver(f, S) ==
    IF S = {} THEN 0
    ELSE LET x == CHOOSE y \in S : TRUE IN f[x] + SumOver(f, S \ {x})

TotalFrames == SumOver([c \in Conns |-> Len(frames[c])], Conns)

ServerInit ==
    /\ pc = [c \in Conns |-> "idle"]
    /\ open = [c \in Conns |-> FALSE]
    /\ sent = [c \in Conns |-> <<>>]
    /\ pending = [c \in Conns |-> NoMessage]
    /\ frames = [c \in Conns |-> <<>>]
    /\ cycle = [c \in Conns |-> NoCycle]
    /\ requests = [c \in Conns |-> 0]
    /\ lastRequest = [c \in Conns |-> NoRequest]
    /\ conversations = {}

BuilderIdle ==
    /\ stage = "idle"
    /\ transcript_in = <<>>
    /\ user_message = ""
    /\ conversation_history = <<>>

Init == ServerInit /\ BuilderIdle

(* ------------------------------ scheduling ----------------------------- *)
\* line 157 is a plain call of the synchronous client: until it returns, the
\* thread of the event loop is inside it and no task, callback or protocol
\* handler runs
LoopFree == \A c \in Conns : pc[c] # "in_chat"

\* process_message started as a task of its own instead of being awaited
ReadyToReceive_concurrent(c) == pc[c] \in {"recv", "send_response", "send_error"}

\* lines 44-45: the next frame is taken only after process_message returned
ReadyToReceive(c) == pc[c] = "recv"

\* a failed call issued a second time
RequestsAfterReturn_retry(count, c, outcome) ==
    IF outcome = "raise" THEN [count EXCEPT ![c] = @ + 1] ELSE count

\* lines 166-168: the except clause returns the apology, the call is not repeated
RequestsAfterReturn(count, c, outcome) == count

\* the built context cached under the call id
ConversationsAfterCycle_cached(store, call_id, history) ==
    store \cup {<<call_id, history>>}

\* lines 72-119 and 127-147: no statement writes self.conversations
ConversationsAfterCycle(store, call_id, history) == store

(* --------------------------- handle_connection ------------------------- *)
\* the end of one task ending every task
Raise_all(c, site, data) ==
    /\ pc' = [d \in Conns |->
                IF d = c THEN ExceptionLanding(site)
                ELSE IF ExceptionLanding(site) = "done" /\ pc[d] # "idle" THEN "done"
                ELSE pc[d]]
    /\ pending' = [pending EXCEPT ![c] =
                     IF ExceptionLanding(site) = "send_error"
                     THEN error_response(data) ELSE NoMessage]

\* an exception raised at a site while the cycle of data is in progress
Raise(c, site, data) ==
    /\ pc' = [pc EXCEPT ![c] = ExceptionLanding(site)]
    /\ pending' = [pending EXCEPT ![c] =
                     IF ExceptionLanding(site) = "send_error"
                     THEN error_response(data) ELSE NoMessage]

\* websockets.serve starts handle_connection; lines 29-40 up to the await
Accept(c) ==
    /\ pc[c] = "idle"
    /\ LoopFree
    /\ pc' = [pc EXCEPT ![c] = "greeting"]
    /\ open' = [open EXCEPT ![c] = TRUE]
    /\ pending' = [pending EXCEPT ![c] = initial_message]
    /\ UNCHANGED <<sent, frames, cycle, requests, lastRequest, conversations, builderVars>>

\* line 40: await websocket.send(json.dumps(initial_message))
SendGreeting(c) ==
    /\ pc[c] = "greeting"
    /\ LoopFree
    /\ IF open[c]
       THEN /\ sent' = [sent EXCEPT ![c] =
                          Append(@, [wire |-> pending[c], cause |-> 0, outcome |-> "nocall"])]
            /\ pc' = [pc EXCEPT ![c] = "recv"]
            /\ pending' = [pending EXCEPT ![c] = NoMessage]
       ELSE /\ Raise(c, "loop", NoCycle)
            /\ UNCHANGED sent
    /\ UNCHANGED <<open, frames, cycle, requests, lastRequest, conversations, builderVars>>

\* lines 72-95 and 152-157: the cycle up to the call of mistral_client.chat
HandleResponseRequired(c, data) ==
    LET call_id == IF data.call_id = NoKey THEN "unknown" ELSE data.call_id
        latest == LatestUserMessage(data.transcript)
        history == prepare_conversation_context(call_id, data.transcript)
        n == Len(frames[c]) + 1
    IN  IF latest.raised \/ history.raised
        THEN /\ Raise(c, "cycle", data)
             /\ cycle' = [cycle EXCEPT ![c] =
                            [frame |-> n, response_id |-> data.response_id, outcome |-> "nocall"]]
             /\ UNCHANGED <<requests, lastRequest, conversations>>
        ELSE /\ requests' = [requests EXCEPT ![c] = @ + 1]
             /\ lastRequest' = [lastRequest EXCEPT ![c] =
                                  [frame |-> n, transcript |-> data.transcript,
                                   messages |-> EnsureUserMessage(history.value, latest.value)]]
             /\ conversations' = ConversationsAfterCycle(conversations, call_id, history.value)
             /\ cycle' = [cycle EXCEPT ![c] =
                            [frame |-> n, response_id |-> data.response_id, outcome |-> "pending"]]
             /\ pc' = [pc EXCEPT ![c] = "in_chat"]
             /\ UNCHANGED pending

\* lines 44-45 and process_message: one frame is received and dispatched
Receive(c, message) ==
    /\ ReadyToReceive(c)
    /\ LoopFree
    /\ open[c]
    /\ TotalFrames < MaxFrames
    /\ frames' = [frames EXCEPT ![c] =
                    Append(@, [json |-> message.json,
                               interaction_type |-> message.interaction_type,
                               response_id |-> message.response_id])]
    /\ IF Dispatch(message) = "response_required"
       THEN HandleResponseRequired(c, message)
       ELSE UNCHANGED <<pc, pending, cycle, requests, lastRequest, conversations>>
    /\ UNCHANGED <<open, sent, builderVars>>

\* lines 157-168 and 98-104: the call returns or raises, the reply is built
ChatReturns(c, outcome) ==
    /\ pc[c] = "in_chat"
    /\ pending' = [pending EXCEPT ![c] =
                     response_message(DataResponseId(cycle[c]), CompletionResult(outcome))]
    /\ cycle' = [cycle EXCEPT ![c].outcome = outcome]
    /\ pc' = [pc EXCEPT ![c] = "send_response"]
    /\ requests' = RequestsAfterReturn(requests, c, outcome)
    /\ UNCHANGED <<open, sent, frames, lastRequest, conversations, builderVars>>

\* lines 106-107: await websocket.send(json.dumps(response_message)), then the log line
SendResponse(c) ==
    /\ pc[c] = "send_response"
    /\ LoopFree
    /\ IF open[c]
       THEN /\ sent' = [sent EXCEPT ![c] =
                          Append(@, [wire |-> pending[c], cause |-> cycle[c].frame,
                                     outcome |-> cycle[c].outcome])]
            /\ IF LogSliceRaises(pending[c].content)
               THEN Raise(c, "cycle", cycle[c])
               ELSE /\ pc' = [pc EXCEPT ![c] = "recv"]
                    /\ pending' = [pending EXCEPT ![c] = NoMessage]
       ELSE /\ Raise(c, "cycle", cycle[c])
            /\ UNCHANGED sent
    /\ UNCHANGED <<open, frames, cycle, requests, lastRequest, conversations, builderVars>>

\* line 119: await websocket.send(json.dumps(error_response))
SendError(c) ==
    /\ pc[c] = "send_error"
    /\ LoopFree
    /\ IF open[c]
       THEN /\ sent' = [sent EXCEPT ![c] =
                          Append(@, [wire |-> pending[c], cause |-> cycle[c].frame,
                                     outcome |-> cycle[c].outcome])]
            /\ pc' = [pc EXCEPT ![c] = "recv"]
            /\ pending' = [pending EXCEPT ![c] = NoMessage]
       ELSE /\ Raise(c, "error_send", cycle[c])
            /\ UNCHANGED sent
    /\ UNCHANGED <<open, frames, cycle, requests, lastRequest, conversations, builderVars>>

\* line 44 on a closed transport: the iteration ends or ConnectionClosed is caught
ReceiveClosed(c) ==
    /\ pc[c] = "recv"
    /\ LoopFree
    /\ ~open[c]
    /\ Raise(c, "loop", NoCycle)
    /\ UNCHANGED <<open, sent, frames, cycle, requests, lastRequest, conversations, builderVars>>

\* the peer, or the keep-alive timeout, closes the transport; the close is
\* noticed by the protocol callbacks of the library, which run on the loop
TransportClose(c) ==
    /\ pc[c] \notin {"idle", "done", "escaped"}
    /\ LoopFree
    /\ open[c]
    /\ open' = [open EXCEPT ![c] = FALSE]
    /\ UNCHANGED <<pc, sent, pending, frames, cycle, requests, lastRequest, conversations, builderVars>>

Next ==
    \/ \E c \in Conns : Accept(c)
    \/ \E c \in Conns : SendGreeting(c)
    \/ \E c \in Conns, message \in WireFrames : Receive(c, message)
    \/ \E c \in Conns, outcome \in Outcomes : ChatReturns(c, outcome)
    \/ \E c \in Conns : SendResponse(c)
    \/ \E c \in Conns : SendError(c)
    \/ \E c \in Conns : ReceiveClosed(c)
    \/ \E c \in Conns : TransportClose(c)

Spec == Init /\ [][Next]_vars

\* a step of the task of connection c
TaskStep(c) ==
    \/ SendGreeting(c)
    \/ SendResponse(c)
    \/ SendError(c)
    \/ ReceiveClosed(c)
    \/ \E outcome \in Outcomes : ChatReturns(c, outcome)

\* the event loop runs every task that is ready, and the call of the client
\* returns or raises (it has a timeout)
LiveSpec == Spec /\ \A c \in Conns : WF_vars(TaskStep(c))

TypeOK ==
    /\ pc \in [Conns -> {"idle", "greeting", "recv", "in_chat", "send_response",
                      "send_error", "done", "escaped"}]
    /\ open \in [Conns -> BOOLEAN]
    /\ \A c \in Conns : requests[c] \in 0..MaxFrames

(* ---------------- the context builder on every transcript -------------- *)
\* one response cycle, lines 80-95 and 152-154, on a transcript of the bounded set
BuilderInit ==
    /\ ServerInit
    /\ stage = "received"
    /\ transcript_in \in Transcripts
    /\ user_message = ""
    /\ conversation_history = <<>>

\* lines 80-87
ExtractUserMessage ==
    /\ stage = "received"
    /\ user_message' = LatestUserMessage(transcript_in).value
    /\ stage' = "extracted"
    /\ UNCHANGED <<transcript_in, conversation_history, serverVars>>

\* line 92
PrepareContext ==
    /\ stage = "extracted"
    /\ conversation_history' = prepare_conversation_context("unknown", transcript_in).value
    /\ stage' = "prepared"
    /\ UNCHANGED <<transcript_in, user_message, serverVars>>

\* line 95 with lines 152-159: the list is extended in place and submitted
SubmitContext ==
    /\ stage = "prepared"
    /\ conversation_history' =
         call_mistral_model(conversation_history, user_message, "text").submitted
    /\ stage' = "submitted"
    /\ UNCHANGED <<transcript_in, user_message, serverVars>>

BuilderNext == ExtractUserMessage \/ PrepareContext \/ SubmitContext

BuilderSpec == BuilderInit /\ [][BuilderNext]_vars

(* ======================= properties of the server ====================== *)
IsResponseRequired(f) == f.json = "object" /\ f.interaction_type = "response_required"

\* positions in sent[c] of the messages sent for frame k of connection c
Responses(c, k) == {i \in 1..Len(sent[c]) : sent[c][i].cause = k}

\* the processing of frame k of connection c has returned to the receive loop
CycleFinished(c, k) == k < Len(frames[c]) \/ pc[c] = "recv"

\* a frame is received in this step; NewFrame is that frame
ReceivedNow(c) == Len(frames'[c]) = Len(frames[c]) + 1
NewFrame(c) == frames'[c][Len(frames'[c])]

\* C1: every response_required frame gets at most one Outbound Response at any
\* time, and exactly one once its cycle has finished on a connection that is
\* still open, whether the completion succeeded, failed, was unusable, or a
\* step of the cycle raised.
C1_ExactlyOneResponse ==
    \A c \in Conns : \A k \in 1..Len(frames[c]) :
        IsResponseRequired(frames[c][k]) =>
            /\ Cardinality(Responses(c, k)) <= 1
            /\ (CycleFinished(c, k) /\ open[c]) => Cardinality(Responses(c, k)) = 1

C1_Witness ==
    \E c \in Conns :
        /\ open[c] /\ pc[c] = "recv" /\ Len(frames[c]) = 2 /\ Len(sent[c]) = 3
        /\ sent[c][2].cause = 1 /\ sent[c][2].wire.content = ErrorContent
        /\ sent[c][3].cause = 2 /\ sent[c][3].outcome = "empty"

\* C2: every message sent for a response_required frame that carries a
\* response_id carries that response_id, on the reply and on the error response.
C2_ResponseIdEchoed ==
    \A c \in Conns : \A i \in 1..Len(sent[c]) :
        LET k == sent[c][i].cause
        IN  (k >= 1 /\ frames[c][k].response_id # NoRid)
              => sent[c][i].wire.response_id = frames[c][k].response_id

C2_Witness ==
    \E c \in Conns :
        /\ Len(sent[c]) = 3
        /\ sent[c][2].wire.content = ModelReply /\ sent[c][2].wire.response_id = 1
        /\ sent[c][3].wire.content = ErrorContent /\ sent[c][3].wire.response_id = 1
        /\ frames[c][1].response_id = 1 /\ frames[c][2].response_id = 1

\* C3: every message sent on any connection has content_complete = true and
\* end_call = false.
C3_CompleteAndNoEndCall ==
    \A c \in Conns : \A i \in 1..Len(sent[c]) :
        sent[c][i].wire.content_complete = TRUE /\ sent[c][i].wire.end_call = FALSE

C3_Witness ==
    \E c \in Conns :
        /\ Len(sent[c]) = 3
        /\ sent[c][1].wire.content = InitialGreeting
        /\ sent[c][2].wire.content = ErrorContent
        /\ sent[c][3].wire.content = ModelReply

\* C4: a response sent for a cycle whose completion call failed carries the
\* apology of call_mistral_model; no exception escapes a connection task, and
\* a task ends only when its transport is closed.
C4_CompletionFailureApology ==
    /\ \A c \in Conns : \A i \in 1..Len(sent[c]) :
          sent[c][i].outcome \in {"raise", "empty"}
            => sent[c][i].wire.content = MistralErrorContent
    /\ \A c \in Conns : pc[c] # "escaped"
    /\ \A c \in Conns : pc[c] = "done" => ~open[c]

C4_Witness ==
    \E c \in Conns :
        /\ open[c] /\ pc[c] = "recv" /\ Len(sent[c]) = 3
        /\ sent[c][2].outcome = "raise" /\ sent[c][2].wire.content = MistralErrorContent
        /\ sent[c][3].cause = 2 /\ sent[c][3].outcome = "text"

\* C5: receiving a frame that is not valid JSON sends nothing, issues no
\* completion request and leaves the task in its receive loop on an open
\* connection; a response_required frame that follows it is answered.
C5_InvalidJsonStep ==
    \A c \in Conns :
        /\ (ReceivedNow(c) /\ NewFrame(c).json = "invalid")
             => /\ sent' = sent
                /\ requests' = requests
                /\ pending'[c] = NoMessage
                /\ pc'[c] = "recv"
                /\ open'[c]
        /\ \A j \in 1..Len(frames'[c]) : \A k \in (j + 1)..Len(frames'[c]) :
              (/\ frames'[c][j].json = "invalid"
               /\ IsResponseRequired(frames'[c][k])
               /\ (k < Len(frames'[c]) \/ pc'[c] = "recv")
               /\ open'[c])
                => \E i \in 1..Len(sent'[c]) : sent'[c][i].cause = k

C5_InvalidJsonDropped == [][C5_InvalidJsonStep]_vars

C5_Witness ==
    \E c \in Conns :
        /\ Len(frames[c]) = 2 /\ frames[c][1].json = "invalid"
        /\ IsResponseRequired(frames[c][2])
        /\ requests[c] = 1 /\ Len(sent[c]) = 2 /\ sent[c][2].cause = 2

\* C6: receiving a frame that parses as JSON but whose interaction_type is
\* neither response_required nor update_only (or is missing) sends nothing and
\* schedules no send; every message sent is the greeting or answers a
\* response_required frame.
C6_UnknownTypeStep ==
    /\ \A c \in Conns :
          (/\ ReceivedNow(c)
           /\ NewFrame(c).json # "invalid"
           /\ ~(NewFrame(c).json = "object"
                /\ NewFrame(c).interaction_type \in {"response_required", "update_only"}))
             => /\ sent' = sent
                /\ requests' = requests
                /\ pending'[c] = NoMessage
                /\ pc'[c] = "recv"
    /\ \A c \in Conns : \A i \in 1..Len(sent'[c]) :
          \/ i = 1 /\ sent'[c][i].cause = 0
          \/ /\ sent'[c][i].cause \in 1..Len(frames'[c])
             /\ IsResponseRequired(frames'[c][sent'[c][i].cause])

C6_UnknownTypeIgnored == [][C6_UnknownTypeStep]_vars

C6_Witness ==
    \E c \in Conns :
        /\ Len(frames[c]) = 2 /\ Len(sent[c]) = 1 /\ pc[c] = "recv" /\ open[c]
        /\ frames[c][1].json = "object" /\ frames[c][1].interaction_type = "ping_check"
        /\ frames[c][2].json = "object" /\ frames[c][2].interaction_type = NoKey

\* C10: on every connection whose task has reached the receive loop, the
\* first message sent is the fixed greeting with response_id 0, no frame is
\* processed before it, and every later message answers a frame.
C10_GreetingFirst ==
    \A c \in Conns :
        (pc[c] \in {"recv", "send_response", "send_error"}
         \/ frames[c] # <<>> \/ sent[c] # <<>>)
          => /\ Len(sent[c]) >= 1
             /\ sent[c][1].cause = 0
             /\ sent[c][1].wire.response_id = 0
             /\ sent[c][1].wire.content = InitialGreeting
             /\ \A i \in 2..Len(sent[c]) : sent[c][i].cause >= 1

C10_Witness ==
    \E c \in Conns :
        /\ Len(sent[c]) = 2
        /\ sent[c][1].wire.response_id = 0 /\ sent[c][1].wire.content = InitialGreeting
        /\ sent[c][2].cause = 1 /\ sent[c][2].wire.response_id = 1

(* =================== properties of the context builder ================= *)
IsDialogue(entry) == entry.role \in {"user", "assistant"}
DialogueEntries(t) == SelectSeq(t, IsDialogue)

\* the system entry followed by the user and assistant entries of t, in order
ExpectedContext(t) ==
    <<SystemEntry>> \o
    [i \in 1..Len(DialogueEntries(t)) |->
        [role |-> DialogueEntries(t)[i].role,
         content |-> IF DialogueEntries(t)[i].content = NoKey
                     THEN "" ELSE DialogueEntries(t)[i].content]]

\* the content of the most recent user entry of t, "" when there is none
ExpectedCurrent(t) ==
    LET U == {i \in 1..Len(t) : t[i].role = "user"}
    IN  IF U = {} THEN ""
        ELSE LET m == CHOOSE i \in U : \A j \in U : j <= i
             IN  IF t[m].content = NoKey THEN "" ELSE t[m].content

LastContent(t) == ExpectedContext(t)[Len(ExpectedContext(t))].content

\* C7: the built context is the system entry followed by exactly the user and
\* assistant entries of the transcript, in order, role and content kept (a
\* missing content read as ""); other roles are dropped.
C7_ContextIsSystemPlusDialogue ==
    stage = "prepared" => conversation_history = ExpectedContext(transcript_in)

C7_Witness ==
    /\ stage = "prepared"
    /\ transcript_in = <<[role |-> "user", content |-> "hi"],
                         [role |-> "tool", content |-> "bye"],
                         [role |-> "assistant", content |-> "hello"]>>
    /\ conversation_history = <<SystemEntry, [role |-> "user", content |-> "hi"],
                                [role |-> "assistant", content |-> "hello"]>>

\* C8: when the last entry of the built context already holds the current
\* user message, nothing is appended: the submitted sequence is the built
\* context, of length 1 + the number of user and assistant entries.
C8_NoDuplicateAppend ==
    (stage = "submitted" /\ LastContent(transcript_in) = ExpectedCurrent(transcript_in))
      => /\ conversation_history = ExpectedContext(transcript_in)
         /\ Len(conversation_history) = 1 + Len(DialogueEntries(transcript_in))

C8_Witness ==
    /\ stage = "submitted"
    /\ transcript_in = <<[role |-> "user", content |-> "hi"],
                         [role |-> "assistant", content |-> "hello"],
                         [role |-> "user", content |-> "bye"]>>
    /\ conversation_history = <<SystemEntry, [role |-> "user", content |-> "hi"],
                                [role |-> "assistant", content |-> "hello"],
                                [role |-> "user", content |-> "bye"]>>

\* C9 as stated: whenever the last content of the built context differs from
\* the current user message, one user entry holding it is appended.
C9_AppendWheneverDifferent ==
    (stage = "submitted" /\ LastContent(transcript_in) # ExpectedCurrent(transcript_in))
      => conversation_history =
           Append(ExpectedContext(transcript_in),
                  [role |-> "user", content |-> ExpectedCurrent(transcript_in)])

\* C9 amended: when the current user message is not empty and the last content
\* of the built context differs from it, exactly one user entry holding it is
\* appended; when the current user message is empty nothing is appended.
C9_AppendNonEmptyWhenDifferent ==
    stage = "submitted" =>
        /\ (ExpectedCurrent(transcript_in) # ""
            /\ LastContent(transcript_in) # ExpectedCurrent(transcript_in))
             => conversation_history =
                  Append(ExpectedContext(transcript_in),
                         [role |-> "user", content |-> ExpectedCurrent(transcript_in)])
        /\ ExpectedCurrent(transcript_in) = ""
             => conversation_history = ExpectedContext(transcript_in)

C9_Witness ==
    /\ stage = "submitted"
    /\ transcript_in = <<[role |-> "user", content |-> "hi"],
                         [role |-> "assistant", content |-> "hello"]>>
    /\ conversation_history = <<SystemEntry, [role |-> "user", content |-> "hi"],
                                [role |-> "assistant", content |-> "hello"],
                                [role |-> "user", content |-> "hi"]>>

(* ================ further properties of the server ===================== *)
\* C11 as stated: a message sent for a response_required frame carries the
\* text of the completion or the one fixed apology text, and a finished turn
\* on an open connection has an answer.
C11_ReplyOrTheApology ==
    \A c \in Conns :
        /\ \A i \in 1..Len(sent[c]) :
              sent[c][i].cause >= 1
                => sent[c][i].wire.content \in {ModelReply, MistralErrorContent}
        /\ \A k \in 1..Len(frames[c]) :
              (IsResponseRequired(frames[c][k]) /\ CycleFinished(c, k) /\ open[c])
                => Responses(c, k) # {}

\* C11 amended: the content is the text of the completion when the call
\* succeeded, the apology of call_mistral_model when the call failed, and the
\* apology of handle_response_required when the cycle raised before the call;
\* a finished turn on an open connection has an answer.
C11_ReplyOrOneOfTwoApologies ==
    \A c \in Conns :
        /\ \A i \in 1..Len(sent[c]) :
              sent[c][i].cause >= 1
                => /\ sent[c][i].outcome = "text" => sent[c][i].wire.content = ModelReply
                   /\ sent[c][i].outcome \in {"raise", "empty"}
                        => sent[c][i].wire.content = MistralErrorContent
                   /\ sent[c][i].outcome = "nocall" => sent[c][i].wire.content = ErrorContent
                   /\ sent[c][i].outcome \in {"text", "raise", "empty", "nocall"}
        /\ \A k \in 1..Len(frames[c]) :
              (IsResponseRequired(frames[c][k]) /\ CycleFinished(c, k) /\ open[c])
                => Responses(c, k) # {}

C11_Witness ==
    \E c \in Conns :
        /\ open[c] /\ pc[c] = "recv" /\ Len(sent[c]) = 3
        /\ sent[c][2].wire.content = MistralErrorContent
        /\ sent[c][3].wire.content = ErrorContent

\* C12 as stated: while a task is inside the completion call, every other
\* task that has a send to perform can be run by the event loop.
C12_CompletionCallSuspends ==
    \A c \in Conns : pc[c] = "in_chat" =>
        \A d \in Conns \ {c} :
            /\ pc[d] = "greeting" => ENABLED SendGreeting(d)
            /\ pc[d] = "send_response" => ENABLED SendResponse(d)
            /\ pc[d] = "send_error" => ENABLED SendError(d)
            /\ (pc[d] = "recv" /\ open[d] /\ TotalFrames < MaxFrames)
                 => ENABLED (\E message \in WireFrames : Receive(d, message))

\* C13 as stated: the completion requests of a connection are as many as its
\* response_required frames whose cycle has reached or passed the call.
C13_OneRequestPerCycle ==
    \A c \in Conns :
        requests[c] = Cardinality({k \in 1..Len(frames[c]) : IsResponseRequired(frames[c][k])})

C13_Step ==
    \A c \in Conns :
        /\ requests'[c] \in {requests[c], requests[c] + 1}
        /\ requests'[c] = requests[c] + 1
             <=> /\ ReceivedNow(c)
                 /\ IsResponseRequired(NewFrame(c))
                 /\ cycle'[c].outcome # "nocall"
        /\ (ReceivedNow(c) /\ ~IsResponseRequired(NewFrame(c))) => requests' = requests

\* C13 amended: a response cycle issues one completion request, never a second
\* one, and none when a step before the call raises; other frames issue none.
C13_AtMostOneRequestPerCycle == [][C13_Step]_vars

C13_Witness ==
    \E c \in Conns :
        /\ Len(frames[c]) = 2 /\ pc[c] = "recv" /\ open[c]
        /\ IsResponseRequired(frames[c][1]) /\ IsResponseRequired(frames[c][2])
        /\ requests[c] = 1
        /\ \E i \in 1..Len(sent[c]) : sent[c][i].outcome = "raise"
        /\ \E i \in 1..Len(sent[c]) : sent[c][i].outcome = "nocall"

\* C14: receiving an update_only frame sends nothing, issues no completion
\* request and leaves the state of the server, the conversation store
\* included, as it was (only the record of received frames grows).
C14_Step ==
    \A c \in Conns :
        (/\ ReceivedNow(c)
         /\ NewFrame(c).json = "object"
         /\ NewFrame(c).interaction_type = "update_only")
          => UNCHANGED <<pc, open, sent, pending, cycle, requests, lastRequest, conversations>>

C14_UpdateOnlyNoEffect == [][C14_Step]_vars

C14_Witness ==
    \E c \in Conns :
        /\ Len(frames[c]) = 2 /\ pc[c] = "recv" /\ open[c]
        /\ IsResponseRequired(frames[c][1]) /\ requests[c] = 1 /\ Len(sent[c]) = 2
        /\ frames[c][2].interaction_type = "update_only"

\* C15: a step in which the task of one connection ends, or its transport
\* fails, changes nothing of any other connection; next to an ended task, an
\* open connection still has a running task and each of its finished
\* response_required frames has its answer.
C15_Step ==
    /\ \A c \in Conns :
          (\/ pc[c] \notin {"done", "escaped"} /\ pc'[c] \in {"done", "escaped"}
           \/ open[c] /\ ~open'[c])
            => \A d \in Conns \ {c} :
                  /\ pc'[d] = pc[d] /\ open'[d] = open[d] /\ sent'[d] = sent[d]
                  /\ pending'[d] = pending[d] /\ cycle'[d] = cycle[d]
                  /\ frames'[d] = frames[d] /\ requests'[d] = requests[d]
    /\ \A c \in Conns : \A d \in Conns \ {c} :
          (pc'[c] \in {"done", "escaped"} /\ open'[d])
            => /\ pc'[d] \notin {"done", "escaped"}
               /\ \A k \in 1..Len(frames'[d]) :
                     (/\ IsResponseRequired(frames'[d][k])
                      /\ (k < Len(frames'[d]) \/ pc'[d] = "recv"))
                       => Cardinality({i \in 1..Len(sent'[d]) : sent'[d][i].cause = k}) = 1

C15_FailureIsolation == [][C15_Step]_vars

C15_Witness ==
    \E c \in Conns : \E d \in Conns \ {c} :
        /\ pc[c] = "done" /\ sent[c] = <<>>
        /\ open[d] /\ pc[d] = "recv" /\ Len(frames[d]) = 2 /\ Len(sent[d]) = 3
        /\ sent[d][2].cause = 1 /\ sent[d][3].cause = 2

\* C16: two completion requests made for the same transcript submit the same
\* sequence, whatever was processed before on the same or on another
\* connection and whatever the call ids.
C16_Step ==
    /\ \A c \in Conns : \A d \in Conns :
          (/\ lastRequest'[c].frame > 0 /\ lastRequest'[d].frame > 0
           /\ lastRequest'[c].transcript = lastRequest'[d].transcript)
            => lastRequest'[c].messages = lastRequest'[d].messages
    /\ \A c \in Conns : \A d \in Conns :
          (/\ lastRequest[c].frame > 0 /\ lastRequest'[d].frame > 0
           /\ lastRequest[c].transcript = lastRequest'[d].transcript)
            => lastRequest[c].messages = lastRequest'[d].messages

C16_ContextFromTranscriptAlone == [][C16_Step]_vars

C16_Witness ==
    \E c \in Conns : \E d \in Conns \ {c} :
        /\ lastRequest[c].frame > 0 /\ lastRequest[d].frame > 0
        /\ lastRequest[c].transcript # <<>>
        /\ lastRequest[c].transcript = lastRequest[d].transcript
        /\ Len(lastRequest[d].messages) = 4
        /\ Len(sent[c]) = 2

\* C17: once the transport of a connection is closed its task ends, nothing
\* is recorded as sent on that connection after the closure, and no task ends
\* by an escaping exception.
C17_ClosedTaskTerminates ==
    /\ \A c \in Conns : (pc[c] # "idle" /\ ~open[c]) ~> (pc[c] = "done")
    /\ [][\A c \in Conns : ~open[c] => sent'[c] = sent[c]]_vars
    /\ [](\A c \in Conns : pc[c] # "escaped")

C17_Witness ==
    \E c \in Conns :
        /\ pc[c] = "done" /\ ~open[c]
        /\ Len(frames[c]) = 1 /\ IsResponseRequired(frames[c][1])
        /\ Len(sent[c]) = 1 /\ requests[c] = 1

\* C18: a frame is received only when the processing of the previous one has
\* returned: no send is pending and every earlier response_required frame has
\* its answer; the answers of a connection are sent in the order of the frames.
C18_Step ==
    /\ \A c \in Conns :
          ReceivedNow(c)
            => /\ pc[c] = "recv"
               /\ pending[c] = NoMessage
               /\ \A k \in 1..Len(frames[c]) :
                     IsResponseRequired(frames[c][k]) => Responses(c, k) # {}
    /\ \A c \in Conns : \A i \in 1..Len(sent'[c]) : \A j \in i..Len(sent'[c]) :
          sent'[c][i].cause <= sent'[c][j].cause

C18_FramesOneAtATime == [][C18_Step]_vars

C18_Witness ==
    \E c \in Conns :
        /\ Len(frames[c]) = 2 /\ Len(sent[c]) = 3
        /\ IsResponseRequired(frames[c][1]) /\ IsResponseRequired(frames[c][2])
        /\ sent[c][2].cause = 1 /\ sent[c][2].outcome = "text"
        /\ sent[c][3].cause = 2 /\ sent[c][3].outcome = "text"

\* C20: the conversation store is empty in every reachable state.
C20_StoreEmpty == conversations = {}

C20_Witness ==
    \E c \in Conns : \E d \in Conns \ {c} :
        /\ requests[c] = 1 /\ requests[d] = 1
        /\ Len(sent[c]) = 2 /\ Len(sent[d]) = 2
        /\ conversations = {}

(* ============ further properties of the context builder ================ *)
\* C19: when the current user message is not empty the submitted sequence
\* begins with the system entry and ends with an entry whose content is the
\* current user message; when the built context ends with an assistant entry
\* of that content, the user turn is not appended again.
C19_EndsWithCurrentUserMessage ==
    (stage = "submitted" /\ ExpectedCurrent(transcript_in) # "")
      => /\ conversation_history[1] = SystemEntry
         /\ conversation_history[Len(conversation_history)].content
              = ExpectedCurrent(transcript_in)
         /\ (/\ ExpectedContext(transcript_in)[Len(ExpectedContext(transcript_in))].role
                  = "assistant"
             /\ LastContent(transcript_in) = ExpectedCurrent(transcript_in))
              => /\ conversation_history = ExpectedContext(transcript_in)
                 /\ conversation_history[Len(conversation_history)].role = "assistant"

C19_Witness ==
    /\ stage = "submitted"
    /\ transcript_in = <<[role |-> "user", content |-> "hi"],
                         [role |-> "assistant", content |-> "hi"]>>
    /\ conversation_history = <<SystemEntry, [role |-> "user", content |-> "hi"],
                                [role |-> "assistant", content |-> "hi"]>>

====
